---- MODULE Spec2Model ----
(***************************************************************************)
(* Model of lib/Dialect/Torch/Transforms/ReifyDtypeCalculations.cpp:       *)
(* the tensor-type classifier, the dtype-function argument builder and the *)
(* pass body that walks a module and wraps every operation that has a      *)
(* dtype function in the abstract-interpretation library.                  *)
(***************************************************************************)
EXTENDS Integers, Sequences, FiniteSets, TLC

VARIABLES
  assertsEnabled,   \* the build: TRUE when assert() is compiled in, FALSE under NDEBUG
  program,          \* the operations of the module at the start of the pass, in textual order
  library,          \* the parsed library: op name -> [found, argumentTypes]
  pc,               \* position of runOnOperation: "walk", "adapt", "done", "failed", "crashed"
  visited,          \* the operations the walk callback has been invoked on, in order
  cur,              \* the operation being wrapped (0 when none)
  desiredTypes,     \* dtypeFunctionArgsBuilder: the remaining signature
  dtypeFuncArgs,    \* dtypeFunctionArgsBuilder: the operands built so far
  nextOperand,      \* dtypeFunctionArgsBuilder: number of original operands processed
  overrun,          \* the signature has been read or dropped past its end
  libFuncArgs,      \* what the last call of dtypeFunctionArgsBuilder returned
  functionsNeeded,  \* runOnOperation: the names of the library functions used
  wrapped,          \* the operations wrapped successfully, in order
  created,          \* the operations created by the pass, in order
  importCalls,      \* number of calls of importLibraryFunctions
  imported,         \* the names handed to importLibraryFunctions
  failedAt,         \* history: the operand (1-based) whose adjustment failed, 0 when none
  short,            \* history: an operand found too few signature entries left
  classified        \* history: the last classification [type, result]

vars == <<assertsEnabled, program, library, pc, visited, cur, desiredTypes,
          dtypeFuncArgs, nextOperand, overrun, libFuncArgs, functionsNeeded,
          wrapped, created, importCalls, imported, failedAt, short, classified>>

-----------------------------------------------------------------------------
(* Bounds of the model *)

MaxOperands == 2
MaxParams == 4
MaxOps == 2

-----------------------------------------------------------------------------
(* Types: a type is the sequence of its constructors, outermost first.     *)
(* A tuple is written with the type of its first element.                   *)

TensorType == <<"Tensor">>
IntType == <<"Int">>
OptionalOf(t) == <<"Optional">> \o t
ListOf(t) == <<"List">> \o t
TupleOf(t) == <<"Tuple">> \o t

OperandTypes ==
  { TensorType, IntType, OptionalOf(TensorType), ListOf(OptionalOf(TensorType)),
    TupleOf(TensorType), OptionalOf(TupleOf(TensorType)) }

DesiredTypes == { IntType, TensorType }

RECURSIVE SeqsUpTo(_, _)
SeqsUpTo(S, n) ==
  IF n = 0 THEN { <<>> }
  ELSE LET shorter == SeqsUpTo(S, n - 1)
       IN shorter \cup { Append(s, x) : s \in shorter, x \in S }

Range(s) == { s[i] : i \in 1..Len(s) }

-----------------------------------------------------------------------------
(* isTensorTypeOrWrappedTensorType *)

RECURSIVE isTensorType_NoListRecursion(_)
isTensorType_NoListRecursion(type) ==
  IF Head(type) = "Tuple" /\ assertsEnabled THEN "assert"
  ELSE IF Head(type) = "Tensor" THEN "true"
  ELSE IF Head(type) = "Optional" THEN isTensorType_NoListRecursion(Tail(type))
  ELSE "false"

RECURSIVE isTensorTypeOrWrappedTensorType(_)
isTensorTypeOrWrappedTensorType(type) ==
  IF Head(type) = "Tuple" /\ assertsEnabled THEN "assert"
  ELSE IF Head(type) = "Tensor" THEN "true"
  ELSE IF Head(type) = "Optional" THEN isTensorTypeOrWrappedTensorType(Tail(type))
  ELSE IF Head(type) = "List" THEN isTensorTypeOrWrappedTensorType(Tail(type))
  ELSE "false"

-----------------------------------------------------------------------------
(* Values.  A value is an original operand followed by the operations      *)
(* created to compute it.                                                  *)

OperandValue(k, type) == [operand |-> k, ops |-> <<>>, type |-> type]

Failure == [failure |-> TRUE]

failed_Never(result) == FALSE

failed(result) == result = Failure

rankArgAdjuster(operand, desiredType) ==
  IF desiredType = IntType /\ Head(operand.type) = "Tensor"
  THEN [operand EXCEPT !.ops = @ \o <<"aten.size", "aten.len.t">>,
                       !.type = desiredType]
  ELSE operand

dtypeArgAdjuster(operand, desiredType) ==
  IF desiredType = IntType /\ Head(operand.type) = "Tensor"
  THEN [operand EXCEPT !.ops = @ \o <<"prim.dtype">>, !.type = desiredType]
  ELSE operand

(* The operation a coercion of the generic adjuster creates. *)
AdjustOp(baseTransformation) ==
  CASE baseTransformation = "rankArgAdjuster" -> "adjust.rank"
    [] baseTransformation = "dtypeArgAdjuster" -> "adjust.dtype"
    [] OTHER -> "adjust"

(* The generic adjuster: the base transformation, then identity when the   *)
(* types agree, else a coercion when one exists (coercible), else failure. *)
adjustFunctionArg(operand, desiredType, baseTransformation, coercible) ==
  LET v == CASE baseTransformation = "rankArgAdjuster" ->
                  rankArgAdjuster(operand, desiredType)
             [] baseTransformation = "dtypeArgAdjuster" ->
                  dtypeArgAdjuster(operand, desiredType)
             [] OTHER -> operand
  IN IF v.type = desiredType THEN v
     ELSE IF coercible
          THEN [v EXCEPT !.ops = @ \o <<AdjustOp(baseTransformation)>>,
                         !.type = desiredType]
          ELSE Failure

-----------------------------------------------------------------------------
(* ArrayRef<Type>: front() and drop_front().  On an empty ArrayRef both are *)
(* guarded by assert only: without assertions front() reads past the end   *)
(* (garbage) and drop_front() leaves a range past the end.                  *)

front(types, garbage) == IF types # <<>> THEN Head(types) ELSE garbage

drop_front_Stay(types) == types

drop_front(types) == IF types # <<>> THEN Tail(types) ELSE <<>>

TensorBlock(rankArg, dtypeArg) == <<rankArg, dtypeArg>>

-----------------------------------------------------------------------------
(* dtypeFunctionArgsBuilder: one iteration of the loop over the original   *)
(* operands.  st is the builder's state, k the operand's position, type    *)
(* its type; o holds what the iteration cannot decide by itself: whether   *)
(* the generic adjuster finds a coercion (rankOk, dtypeOk), and, for a     *)
(* read past the end of the signature in a build without assertions, what  *)
(* the read produces (a crash, ubCrash and ubCrash2, or the garbage types  *)
(* g1 and g2).                                                             *)
(* The result is st updated, with status "running", "failure" or "crash". *)

OpsOf(arg) == IF arg = Failure THEN <<>> ELSE arg.ops

LoopBody(st, k, type, o) ==
  LET operand == OperandValue(k, type)
      cls == isTensorTypeOrWrappedTensorType(type)
      Crash(s) == [s EXCEPT !.status = "crash"]
      Fail(s) == [s EXCEPT !.status = "failure"]
      Note(s, arg) == [s EXCEPT !.failedAt = IF arg = Failure THEN k ELSE @,
                                !.created = @ \o OpsOf(arg)]
  IN
  IF st.desiredTypes = <<>> /\ assertsEnabled
  THEN Crash([st EXCEPT !.short = TRUE])                      \* assert, line 78
  ELSE IF st.desiredTypes = <<>> /\ o.ubCrash
  THEN Crash([st EXCEPT !.short = TRUE, !.overrun = TRUE])    \* front(), line 81
  ELSE
  LET desiredType == front(st.desiredTypes, o.g1)
      s0 == [st EXCEPT !.classified = [type |-> type, result |-> cls],
                       !.overrun = @ \/ st.desiredTypes = <<>>,
                       !.short = @ \/ st.desiredTypes = <<>>]
  IN
  IF cls = "assert" THEN Crash(s0)                            \* assert, line 29
  ELSE IF cls = "true"
  THEN
    IF Len(st.desiredTypes) < 2 /\ assertsEnabled
    THEN Crash([s0 EXCEPT !.short = TRUE])                    \* assert, line 83
    ELSE
    LET rankArg == adjustFunctionArg(operand, desiredType,
                                     "rankArgAdjuster", o.rankOk)
        s1 == Note([s0 EXCEPT !.short = @ \/ Len(st.desiredTypes) < 2], rankArg)
    IN
    IF failed(rankArg) THEN Fail(s1)
    ELSE
    LET types1 == drop_front(st.desiredTypes)
        s2 == [s1 EXCEPT !.desiredTypes = types1,
                         !.overrun = @ \/ types1 = <<>>]
    IN
    IF types1 = <<>> /\ o.ubCrash2 THEN Crash(s2)              \* front(), line 91
    ELSE
    LET desiredType2 == front(types1, o.g2)
        dtypeArg == adjustFunctionArg(operand, desiredType2,
                                      "dtypeArgAdjuster", o.dtypeOk)
        s3 == Note(s2, dtypeArg)
    IN
    IF failed(dtypeArg) THEN Fail(s3)
    ELSE [s3 EXCEPT !.dtypeFuncArgs = @ \o TensorBlock(rankArg, dtypeArg),
                    !.desiredTypes = drop_front(types1),
                    !.nextOperand = k]
  ELSE
    LET otherArg == adjustFunctionArg(operand, desiredType, "none", o.rankOk)
        s1 == Note(s0, otherArg)
    IN
    IF failed(otherArg) THEN Fail(s1)
    ELSE [s1 EXCEPT !.dtypeFuncArgs = Append(@, otherArg),
                    !.desiredTypes = drop_front(st.desiredTypes),
                    !.nextOperand = k]

Oracles ==
  [rankOk : BOOLEAN, dtypeOk : BOOLEAN, ubCrash : BOOLEAN, ubCrash2 : BOOLEAN,
   g1 : DesiredTypes, g2 : DesiredTypes]

-----------------------------------------------------------------------------
(* The module: operation 1 is the module itself, the others follow in      *)
(* textual order, each nested in a region of its parent.                   *)

Names == { "aten.f", "aten.g" }

ModuleOp == [name |-> "builtin.module", parent |-> 0, operands |-> <<>>]

NoFunc == [found |-> FALSE, argumentTypes |-> <<>>]

Func(types) == [found |-> TRUE, argumentTypes |-> types]

RECURSIVE IsAncestor(_, _, _)
IsAncestor(prog, a, b) ==
  /\ b # 0
  /\ prog[b].parent # 0
  /\ (prog[b].parent = a \/ IsAncestor(prog, a, prog[b].parent))

(* Textual order numbers a parent before its nested operations, and an     *)
(* operation's parent encloses the operation before it or is its parent.   *)
WellNested(parent) ==
  /\ parent[1] = 0
  /\ \A i \in 2..Len(parent) :
       /\ parent[i] \in 1..(i - 1)
       /\ \A j \in (parent[i] + 1)..(i - 1) : parent[j] >= parent[i]

ParentSeqs(n) ==
  { p \in [1..(n + 1) -> 0..n] : WellNested(p) }

(* The operands of the operations of the pass scenarios: f(tensor, int)   *)
(* and g(optional<tensor>).                                                *)
ScenarioOperands(name) ==
  IF name = "aten.f" THEN <<TensorType, IntType>>
  ELSE <<OptionalOf(TensorType)>>

(* The signatures of the pass scenarios: one, two or three int parameters. *)
ScenarioSignatures ==
  { <<IntType>>, <<IntType, IntType>>, <<IntType, IntType, IntType>> }

Programs ==
  UNION { { [i \in 1..(n + 1) |->
               IF i = 1 THEN ModuleOp
               ELSE [name |-> nm[i], parent |-> p[i],
                     operands |-> ScenarioOperands(nm[i])]]
            : p \in ParentSeqs(n), nm \in [2..(n + 1) -> Names] }
          : n \in 1..MaxOps }

SingleOpPrograms ==
  { <<ModuleOp, [name |-> "aten.f", parent |-> 1, operands |-> os]>>
    : os \in SeqsUpTo(OperandTypes, MaxOperands) }

-----------------------------------------------------------------------------
(* Module::walk with the default order: post-order, nested operations in  *)
(* textual order before the operation that holds them.                     *)

RECURSIVE PreOrderFrom(_, _, _)
PreOrderFrom(prog, n, i) ==
  IF i > Len(prog) THEN <<>>
  ELSE IF prog[i].parent = n
       THEN <<i>> \o PreOrderFrom(prog, i, i + 1) \o PreOrderFrom(prog, n, i + 1)
       ELSE PreOrderFrom(prog, n, i + 1)

RECURSIVE PostOrderFrom(_, _, _)
PostOrderFrom(prog, n, i) ==
  IF i > Len(prog) THEN <<>>
  ELSE IF prog[i].parent = n
       THEN PostOrderFrom(prog, i, i + 1) \o <<i>> \o PostOrderFrom(prog, n, i + 1)
       ELSE PostOrderFrom(prog, n, i + 1)

WalkOrder_PreOrder(prog) == PreOrderFrom(prog, 0, 1)

WalkOrder(prog) == PostOrderFrom(prog, 0, 1)

-----------------------------------------------------------------------------
(* The wrap utility's contract *)

Lookup(name) == IF name \in DOMAIN library THEN library[name] ELSE NoFunc

Include_PushBack(needed, name) == Append(needed, name)

Include(needed, name) ==
  IF name \in Range(needed) THEN needed ELSE Append(needed, name)

-----------------------------------------------------------------------------
(* runOnOperation *)

functionsNeededInit_Stale == <<"aten.f", "aten.f">>

functionsNeededInit == <<>>

walkCallback_Ignore(result) == "advance"

walkCallback_Inverted(result) ==
  IF result = "failure" THEN "advance" ELSE "interrupt"

(* The callback of the walk: the wrap's LogicalResult as a WalkResult. *)
walkCallback(result) ==
  IF result = "failure" THEN "interrupt" ELSE "advance"

afterWalk_NoReturn(wasInterrupted) ==
  IF wasInterrupted THEN [pc |-> "failed", import |-> TRUE]
  ELSE [pc |-> "done", import |-> TRUE]

(* Lines 126-128: signalPassFailure and return, or import. *)
afterWalk(wasInterrupted) ==
  IF wasInterrupted THEN [pc |-> "failed", import |-> FALSE]
  ELSE [pc |-> "done", import |-> TRUE]

NoClassification == [type |-> <<>>, result |-> "none"]

NoResult == [status |-> "none", args |-> <<>>]

Init ==
  /\ assertsEnabled \in BOOLEAN
  /\ \/ /\ program \in SingleOpPrograms
        /\ \E e \in { NoFunc } \cup { Func(ts) : ts \in SeqsUpTo(DesiredTypes, MaxParams) } :
             library = [n \in Names |-> IF n = "aten.f" THEN e ELSE NoFunc]
     \/ /\ program \in Programs
        /\ library \in [Names -> { NoFunc } \cup
                          { Func(ts) : ts \in ScenarioSignatures }]
  /\ pc = "walk"
  /\ visited = <<>>
  /\ cur = 0
  /\ desiredTypes = <<>>
  /\ dtypeFuncArgs = <<>>
  /\ nextOperand = 0
  /\ overrun = FALSE
  /\ libFuncArgs = NoResult
  /\ functionsNeeded = functionsNeededInit
  /\ wrapped = <<>>
  /\ created = <<>>
  /\ importCalls = 0
  /\ imported = <<>>
  /\ failedAt = 0
  /\ short = FALSE
  /\ classified = NoClassification

NextOp == WalkOrder(program)[Len(visited) + 1]

(* What runOnOperation does once the callback has returned `result`. *)
Resume(result) ==
  LET after == afterWalk(TRUE)
  IN IF walkCallback(result) = "interrupt"
     THEN /\ pc' = after.pc
          /\ importCalls' = IF after.import THEN importCalls + 1 ELSE importCalls
          /\ imported' = IF after.import THEN functionsNeeded' ELSE imported
     ELSE /\ pc' = "walk"
          /\ UNCHANGED <<importCalls, imported>>

(* The callback on an operation without a dtype function in the library. *)
VisitUnmatched ==
  /\ pc = "walk"
  /\ Len(visited) < Len(program)
  /\ ~Lookup(program[NextOp].name).found
  /\ visited' = Append(visited, NextOp)
  /\ UNCHANGED functionsNeeded
  /\ Resume("success")
  /\ UNCHANGED <<assertsEnabled, program, library, cur, desiredTypes,
                 dtypeFuncArgs, nextOperand, overrun, libFuncArgs, wrapped,
                 created, failedAt, short, classified>>

(* The callback on an operation with a dtype function: the calculate op is *)
(* created and dtypeFunctionArgsBuilder is entered.                        *)
BeginWrap ==
  /\ pc = "walk"
  /\ Len(visited) < Len(program)
  /\ Lookup(program[NextOp].name).found
  /\ visited' = Append(visited, NextOp)
  /\ cur' = NextOp
  /\ desiredTypes' = Lookup(program[NextOp].name).argumentTypes
  /\ dtypeFuncArgs' = <<>>
  /\ nextOperand' = 0
  /\ overrun' = FALSE
  /\ libFuncArgs' = NoResult
  /\ created' = Append(created, "torch.dtype.calculate")
  /\ pc' = "adapt"
  /\ UNCHANGED <<assertsEnabled, program, library, functionsNeeded, wrapped,
                 importCalls, imported, failedAt, short, classified>>

BuilderState ==
  [desiredTypes |-> desiredTypes, dtypeFuncArgs |-> dtypeFuncArgs,
   nextOperand |-> nextOperand, overrun |-> overrun, created |-> created,
   failedAt |-> failedAt, short |-> short, classified |-> classified,
   status |-> "running"]

Iterate(o) ==
  LoopBody(BuilderState, nextOperand + 1,
           program[cur].operands[nextOperand + 1], o)

Store(st) ==
  /\ desiredTypes' = st.desiredTypes
  /\ dtypeFuncArgs' = st.dtypeFuncArgs
  /\ nextOperand' = st.nextOperand
  /\ overrun' = st.overrun
  /\ created' = st.created
  /\ failedAt' = st.failedAt
  /\ short' = st.short
  /\ classified' = st.classified

(* One iteration of the loop of dtypeFunctionArgsBuilder that completes. *)
AdaptOperand ==
  /\ pc = "adapt"
  /\ nextOperand < Len(program[cur].operands)
  /\ \E o \in Oracles :
       LET st == Iterate(o)
       IN st.status = "running" /\ Store(st)
  /\ UNCHANGED <<assertsEnabled, program, library, pc, visited, cur,
                 libFuncArgs, functionsNeeded, wrapped, importCalls, imported>>

(* An iteration in which an adjustment fails: the builder returns failure, *)
(* the wrap returns failure, the walk is interrupted.                      *)
AdaptFailure ==
  /\ pc = "adapt"
  /\ nextOperand < Len(program[cur].operands)
  /\ \E o \in Oracles :
       LET st == Iterate(o)
       IN st.status = "failure" /\ Store(st)
  /\ libFuncArgs' = [status |-> "failure", args |-> <<>>]
  /\ UNCHANGED functionsNeeded
  /\ Resume("failure")
  /\ UNCHANGED <<assertsEnabled, program, library, visited, cur, wrapped>>

(* An iteration that ends the process: a failed assertion, or a crash on   *)
(* reading past the end of the signature.                                  *)
AdaptCrash ==
  /\ pc = "adapt"
  /\ nextOperand < Len(program[cur].operands)
  /\ \E o \in Oracles :
       LET st == Iterate(o)
       IN st.status = "crash" /\ Store(st)
  /\ pc' = "crashed"
  /\ UNCHANGED <<assertsEnabled, program, library, visited, cur, libFuncArgs,
                 functionsNeeded, wrapped, importCalls, imported>>

(* The loop is over: the builder returns its list, the wrap creates the   *)
(* call, records the function and returns success.                        *)
WrapSucceeds ==
  /\ pc = "adapt"
  /\ nextOperand = Len(program[cur].operands)
  /\ libFuncArgs' = [status |-> "success", args |-> dtypeFuncArgs]
  /\ created' = Append(created, "func.call")
  /\ functionsNeeded' = Include(functionsNeeded, program[cur].name)
  /\ wrapped' = Append(wrapped, cur)
  /\ Resume("success")
  /\ UNCHANGED <<assertsEnabled, program, library, visited, cur, desiredTypes,
                 dtypeFuncArgs, nextOperand, overrun, failedAt, short,
                 classified>>

(* The loop is over and the builder returns its list, but the wrap fails  *)
(* on the structure it builds.                                            *)
WrapStructuralFailure ==
  /\ pc = "adapt"
  /\ nextOperand = Len(program[cur].operands)
  /\ libFuncArgs' = [status |-> "success", args |-> dtypeFuncArgs]
  /\ UNCHANGED functionsNeeded
  /\ Resume("failure")
  /\ UNCHANGED <<assertsEnabled, program, library, visited, cur, desiredTypes,
                 dtypeFuncArgs, nextOperand, overrun, wrapped, created,
                 failedAt, short, classified>>

(* The walk returned without interruption: importLibraryFunctions. *)
Finalize ==
  /\ pc = "walk"
  /\ Len(visited) = Len(program)
  /\ LET after == afterWalk(FALSE)
     IN /\ pc' = after.pc
        /\ importCalls' = IF after.import THEN importCalls + 1 ELSE importCalls
        /\ imported' = IF after.import THEN functionsNeeded ELSE imported
  /\ UNCHANGED <<assertsEnabled, program, library, visited, cur, desiredTypes,
                 dtypeFuncArgs, nextOperand, overrun, libFuncArgs,
                 functionsNeeded, wrapped, created, failedAt, short, classified>>

Next ==
  \/ VisitUnmatched
  \/ BeginWrap
  \/ AdaptOperand
  \/ AdaptFailure
  \/ AdaptCrash
  \/ WrapSucceeds
  \/ WrapStructuralFailure
  \/ Finalize

Spec == Init /\ [][Next]_vars

-----------------------------------------------------------------------------
(* Vocabulary of the properties *)

(* A tensor, or a tensor under Optional/List wrappers only. *)
WrappedTensor(t) ==
  /\ t[Len(t)] = "Tensor"
  /\ \A i \in 1..(Len(t) - 1) : t[i] \in { "Optional", "List" }

(* A tuple, directly or under Optional/List wrappers only. *)
ReachesTuple(t) ==
  \E k \in 1..Len(t) :
    /\ t[k] = "Tuple"
    /\ \A i \in 1..(k - 1) : t[i] \in { "Optional", "List" }

Width(t) == IF WrappedTensor(t) THEN 2 ELSE 1

RECURSIVE Offset(_, _)
Offset(operands, k) ==
  IF k = 0 THEN 0 ELSE Offset(operands, k - 1) + Width(operands[k])

IsRank(v, k) ==
  /\ v.operand = k
  /\ v.ops \in { <<"aten.size", "aten.len.t">>, <<"adjust.rank">>, <<>> }

IsDtype(v, k) ==
  /\ v.operand = k
  /\ v.ops \in { <<"prim.dtype">>, <<"adjust.dtype">>, <<>> }

IsOther(v, k) ==
  /\ v.operand = k
  /\ v.ops \in { <<>>, <<"adjust">> }

Operands == program[cur].operands

Arity == Len(Lookup(program[cur].name).argumentTypes)

Matched(i) == Lookup(program[i].name).found

RECURSIVE FirstOccurrences(_)
FirstOccurrences(s) ==
  IF s = <<>> THEN <<>>
  ELSE LET front_ == FirstOccurrences(SubSeq(s, 1, Len(s) - 1))
       IN IF s[Len(s)] \in Range(front_) THEN front_
          ELSE Append(front_, s[Len(s)])

WrappedNames == [i \in 1..Len(wrapped) |-> program[wrapped[i]].name]

-----------------------------------------------------------------------------
(* C1: when dtypeFunctionArgsBuilder succeeds, its list is one block per   *)
(* original operand, in operand order: rank value then dtype value for an  *)
(* operand that is a tensor or a tensor under Optional/List wrappers, one  *)
(* value (the operand or its adjustment) for any other operand.            *)
C1_BlockPerOperand ==
  libFuncArgs.status = "success" =>
    LET args == libFuncArgs.args
    IN /\ Len(args) = Offset(Operands, Len(Operands))
       /\ \A k \in 1..Len(Operands) :
            LET b == Offset(Operands, k - 1)
            IN IF WrappedTensor(Operands[k])
               THEN IsRank(args[b + 1], k) /\ IsDtype(args[b + 2], k)
               ELSE IsOther(args[b + 1], k)

C1_Witness ==
  /\ libFuncArgs.status = "success"
  /\ Operands = <<ListOf(OptionalOf(TensorType)), IntType>>
  /\ Len(libFuncArgs.args) = 3

(* C2 as stated: on success the number of adapted operands equals the     *)
(* declared arity of the dtype function (the signature is used up).        *)
C2_ArityMatches ==
  libFuncArgs.status = "success" =>
    Len(libFuncArgs.args) = Arity /\ desiredTypes = <<>>

(* C2 amended: on success the number of adapted operands equals the number *)
(* of signature entries consumed; entries left over are not checked, and   *)
(* only a signature read past its end gives more operands than the arity.  *)
C2_ConsumedSlots ==
  libFuncArgs.status = "success" =>
    IF overrun
    THEN desiredTypes = <<>> /\ Len(libFuncArgs.args) > Arity
    ELSE Len(libFuncArgs.args) + Len(desiredTypes) = Arity

C2_Witness ==
  /\ libFuncArgs.status = "success"
  /\ Len(libFuncArgs.args) = 3
  /\ Len(desiredTypes) = 1
  /\ ~overrun

(* C3: an operand that finds too few signature entries left makes the     *)
(* builder return failure, which fails the pass without import, without a *)
(* crash and without a read past the end of the signature.                 *)
C3_ShortSignatureFails ==
  short =>
    /\ pc = "failed"
    /\ libFuncArgs.status = "failure"
    /\ ~overrun
    /\ importCalls = 0

(* C4: importLibraryFunctions is called at most once, exactly in the runs *)
(* whose walk visited every operation without failure; a failed run never *)
(* calls it, and a completed walk is followed by the call.                 *)
C4_ImportOnce ==
  /\ importCalls <= 1
  /\ importCalls = 1 <=> pc = "done"
  /\ pc = "done" =>
       /\ Len(visited) = Len(program)
       /\ failedAt = 0
       /\ \A i \in 1..Len(program) : Matched(i) => i \in Range(wrapped)
       /\ imported = functionsNeeded
  /\ pc = "failed" => importCalls = 0
  /\ (pc = "walk" /\ Len(visited) = Len(program)) => ENABLED Finalize

C4_Witness ==
  /\ pc = "done"
  /\ importCalls = 1
  /\ Len(wrapped) = 2

(* C5: functionsNeeded has no duplicates and holds exactly the names of    *)
(* the functions of the successful wraps, in order of first use.           *)
C5_NeededInFirstUseOrder ==
  /\ functionsNeeded = FirstOccurrences(WrappedNames)
  /\ \A i, j \in 1..Len(functionsNeeded) :
       functionsNeeded[i] = functionsNeeded[j] => i = j

C5_Witness ==
  /\ Len(wrapped) = 2
  /\ program[wrapped[1]].name = program[wrapped[2]].name
  /\ Len(functionsNeeded) = 1

(* C6: the classifier never answers for a tuple: a tuple reached directly *)
(* or through Optional/List wrappers stops it, so no operand of such a    *)
(* type is ever adapted.                                                   *)
C6_TupleFailsFast ==
  /\ (classified.result # "none" /\ ~overrun) =>
       (ReachesTuple(classified.type) => classified.result = "assert")
  /\ (pc = "adapt" /\ ~overrun) =>
       \A i \in 1..Len(dtypeFuncArgs) :
         ~ReachesTuple(Operands[dtypeFuncArgs[i].operand])

(* C7: visiting an operation without a dtype function changes neither the *)
(* program nor functionsNeeded and does not stop the walk; a run over a    *)
(* program without any such function wraps nothing.                        *)
C7_UnmatchedUntouched ==
  /\ [][(/\ Len(visited') = Len(visited) + 1
         /\ ~Matched(visited'[Len(visited')]))
        => /\ pc' = "walk"
           /\ UNCHANGED <<program, functionsNeeded, wrapped, created>>]_vars
  /\ []((\A i \in 1..Len(program) : ~Matched(i))
        => /\ pc \in { "walk", "done" }
           /\ wrapped = <<>>
           /\ created = <<>>
           /\ functionsNeeded = <<>>)

C7_Witness ==
  /\ pc = "done"
  /\ Len(program) = 3
  /\ \A i \in 1..Len(program) : ~Matched(i)
  /\ imported = <<>>

(* C8: a failed adjustment ends the builder at that operand: it returns   *)
(* failure without a list, and nothing was built for that operand or any  *)
(* later one.                                                              *)
C8_AbortAtFailedAdjustment ==
  /\ failedAt # 0 =>
       /\ libFuncArgs.status = "failure"
       /\ libFuncArgs.args = <<>>
       /\ nextOperand = failedAt - 1
       /\ \A i \in 1..Len(dtypeFuncArgs) : dtypeFuncArgs[i].operand < failedAt
  /\ libFuncArgs.status = "failure" => failedAt # 0

C8_Witness ==
  /\ failedAt = 1
  /\ Len(Operands) = 2
  /\ libFuncArgs.status = "failure"
  /\ Len(desiredTypes) = 2

(* C9 as stated: the walk is pre-order, no operation of the module is     *)
(* visited after an operation nested in it.                                *)
C9_PreOrder ==
  \A i, j \in 1..Len(visited) :
    (i < j /\ visited[j] # 1) => ~IsAncestor(program, visited[j], visited[i])

(* C9 amended: the walk is post-order: each operation at most once, all   *)
(* of them when the walk completes, nested operations before the one that *)
(* holds them and otherwise in textual order; no created operation is      *)
(* visited.                                                                *)
C9_PostOrder ==
  /\ \A i, j \in 1..Len(visited) :
       i < j =>
         /\ visited[i] # visited[j]
         /\ \/ IsAncestor(program, visited[j], visited[i])
            \/ /\ ~IsAncestor(program, visited[i], visited[j])
               /\ visited[i] < visited[j]
  /\ pc = "done" => Range(visited) = 1..Len(program)
  /\ \A i \in 1..Len(created) : (Len(program) + i) \notin Range(visited)

C9_Witness ==
  /\ pc = "done"
  /\ Len(program) = 3
  /\ program[3].parent = 2
  /\ wrapped = <<3, 2>>

(* C10: a failed wrap interrupts the walk at that operation and fails the *)
(* pass; nothing is visited or wrapped afterwards and the earlier wraps    *)
(* stay.                                                                   *)
C10_FailureInterruptsWalk ==
  /\ [](pc = "failed" =>
          /\ visited[Len(visited)] = cur
          /\ cur \notin Range(wrapped)
          /\ importCalls = 0)
  /\ [][(pc = "adapt" /\ pc' \notin { "adapt", "crashed" } /\ wrapped' = wrapped)
        => pc' = "failed"]_vars
  /\ [][pc = "failed" => (pc' = "failed" /\ visited' = visited)]_vars
  /\ [][/\ Len(wrapped) <= Len(wrapped')
        /\ SubSeq(wrapped', 1, Len(wrapped)) = wrapped
        /\ Len(created) <= Len(created')
        /\ SubSeq(created', 1, Len(created)) = created]_vars

C10_Witness ==
  /\ pc = "failed"
  /\ Len(wrapped) = 1
  /\ Len(visited) = 2
  /\ Len(program) = 3

====
